---------------------------- MODULE Spec2Model ----------------------------
(***************************************************************************)
(* Model of gui/main_window.py: the drag-and-drop reordering of toolboxes  *)
(* in MainWindow.contentLayout and the pan/zoom state of the two           *)
(* InteractiveCanvas widgets.                                              *)
(***************************************************************************)
EXTENDS Integers, Sequences, FiniteSets

\* Largest number of toolboxes the user has added to the content layout.
MaxToolboxes == 3
\* Wheel events and pan moves in one behaviour.
MaxWheel == 2
MaxPan == 2
\* Wheel events and pan moves together, where lock toggles, re-plots and
\* resets are interleaved with them.
MaxGestures == 3
\* Size of the displayed image in pixels, and the tallest histogram bar.
ImgW == 2
ImgH == 1
HistMax == 3

VARIABLES
    contentLayout,   \* MainWindow.contentLayout: the widgets, left to right
    steps,           \* pipeline step order (one step per Toolbox)
    canvas,          \* in_im_canvas and out_im_canvas: the fields of each
    nWheel,          \* wheel events so far
    nPan,            \* pan moves so far
    last             \* the last handler that touched the layout or axis limits

vars == <<contentLayout, steps, canvas, nWheel, nPan, last>>

(***************************************************************************)
(* Widgets of the content layout                                           *)
(***************************************************************************)
\* self.add_new_box, the footer widget; toolboxes are 1, 2, ...
add_new_box == 0

Toolboxes == 1..MaxToolboxes

isToolbox(widget) == widget \in Toolboxes

RECURSIVE Iota(_)
Iota(n) == IF n = 0 THEN <<>> ELSE Append(Iota(n - 1), n)

\* A drop position is the set of widgets whose geometry contains it: the
\* widgets of a box layout do not overlap, so it is {} (empty space) or {w}.
contains(widget, pos) == widget \in pos

\* layout.itemAt(i).widget(), i counted from 0 as in the code
itemAt(layout, i) == layout[i + 1]

\* layout.indexOf(widget), counted from 0
indexOf(layout, widget) == CHOOSE i \in 0..(Len(layout) - 1) : layout[i + 1] = widget

RECURSIVE scanLayout(_, _, _)
scanLayout(layout, pos, i) ==
    IF i >= Len(layout) THEN Len(layout) - 1
    ELSE LET widget == itemAt(layout, i) IN
         IF widget # add_new_box /\ contains(widget, pos) THEN i
         ELSE scanLayout(layout, pos, i + 1)

find_insert_index_offByOne(layout, pos) ==
    LET i == scanLayout(layout, pos, 0) IN
    IF pos # {} /\ pos # {add_new_box} /\ i > 0 THEN i - 1 ELSE i

find_insert_index(layout, pos) == scanLayout(layout, pos, 0)

\* QBoxLayout.removeWidget: the widget's item is taken out, the rest close up
removeWidget(layout, widget) == SelectSeq(layout, LAMBDA w : w # widget)

\* QBoxLayout.insertWidget(index, widget): a negative index appends
insertWidget(layout, index, widget) ==
    IF index < 0 \/ index >= Len(layout) THEN Append(layout, widget)
    ELSE SubSeq(layout, 1, index) \o <<widget>> \o SubSeq(layout, index + 1, Len(layout))

\* pipeline.move_step(source, index): the step is removed and re-inserted at
\* index (list.insert: an index past the end appends)
move_step(pipeline, source, index) ==
    LET rest == SelectSeq(pipeline, LAMBDA s : s # source) IN
    IF index >= Len(rest) THEN Append(rest, source)
    ELSE SubSeq(rest, 1, index) \o <<source>> \o SubSeq(rest, index + 1, Len(rest))

DropPositions == {{}} \cup {{w} : w \in Toolboxes \cup {add_new_box}}

dropEvent(source, pos) ==
    LET index == find_insert_index(contentLayout, pos) IN
    /\ \E k \in 1..Len(contentLayout) : contentLayout[k] = source
    /\ pos \subseteq {contentLayout[k] : k \in 1..Len(contentLayout)}
    /\ IF isToolbox(source)
       THEN /\ steps' = move_step(steps, source, index)
            /\ contentLayout' = insertWidget(removeWidget(contentLayout, source), index, source)
       ELSE UNCHANGED <<contentLayout, steps>>
    /\ last' = [op |-> "dropEvent", source |-> source, pos |-> pos, index |-> index]
    /\ UNCHANGED <<canvas, nWheel, nPan>>

InitLayout ==
    \E n \in 1..MaxToolboxes :
        /\ contentLayout = Append(Iota(n), add_new_box)
        /\ steps = Iota(n)

NextLayout ==
    \E source \in Toolboxes \cup {add_new_box}, pos \in DropPositions : dropEvent(source, pos)

(***************************************************************************)
(* InteractiveCanvas.  Axis limits are pairs <<low, high>> of exact        *)
(* fixed-point numbers: the integer v stands for the data coordinate       *)
(* v / Unit.  Unit is chosen so that every product and quotient the        *)
(* handlers compute within MaxWheel wheel events and MaxPan pan moves is   *)
(* exact.  A field holding None is <<>>, one holding the integer 0 is      *)
(* <<0>>; both are false in a Python condition, a list of two is true.     *)
(***************************************************************************)
RECURSIVE Pow(_, _)
Pow(b, n) == IF n = 0 THEN 1 ELSE b * Pow(b, n - 1)

Unit == 2 * Pow(40, MaxWheel) * Pow(2, MaxPan)

Canvases == {"in", "out"}

None == <<>>

truthy(v) == Len(v) = 2

max(a, b) == IF a >= b THEN a ELSE b

min(a, b) == IF a <= b THEN a ELSE b

\* Limits of freshly created or cleared axes: (0, 1) on both axes.
clearedLim == <<0, Unit>>

\* What plotting the data leaves on the axes: an image of ImgW x ImgH pixels
\* spans (-0.5, ImgW - 0.5) and, top-down, (ImgH - 0.5, -0.5); a histogram
\* spans the 256 levels and the bar heights.
dataXlim(plot_type) ==
    IF plot_type = "histogram" THEN <<0, 255 * Unit>>
    ELSE <<-(Unit \div 2), ImgW * Unit - (Unit \div 2)>>

dataYlim(plot_type) ==
    IF plot_type = "histogram" THEN <<0, HistMax * Unit>>
    ELSE <<ImgH * Unit - (Unit \div 2), -(Unit \div 2)>>

newCanvas ==
    [axes_xlim |-> clearedLim, axes_ylim |-> clearedLim,
     _is_panning |-> FALSE, _pan_start |-> None,
     _xlim |-> None, _ylim |-> None,
     _orig_xlim |-> None, _orig_ylim |-> None,
     lock_x_zoom |-> FALSE, lock_y_zoom |-> FALSE,
     is_zoomed |-> FALSE, plot_type |-> "image"]

configure_imgae_plot(self) ==
    LET s1 == IF ~self.is_zoomed
              THEN [self EXCEPT !._orig_xlim = self.axes_xlim, !._orig_ylim = self.axes_ylim]
              ELSE self IN
    IF truthy(s1._xlim) /\ truthy(s1._ylim)
    THEN [s1 EXCEPT !.axes_xlim = s1._xlim, !.axes_ylim = s1._ylim]
    ELSE s1

configure_hist_plot(self) ==
    LET s1 == IF ~self.is_zoomed
              THEN [self EXCEPT !.axes_xlim = <<-Unit, 256 * Unit>>]
              ELSE self IN
    IF truthy(s1._xlim) /\ truthy(s1._ylim)
    THEN [s1 EXCEPT !.axes_xlim = s1._xlim, !.axes_ylim = s1._ylim]
    ELSE s1

\* The dispatch on plot_type that follows a change of the limits.
reconfigure(self) ==
    IF self.plot_type = "image" THEN configure_imgae_plot(self)
    ELSE IF self.plot_type = "histogram" THEN configure_hist_plot(self)
    ELSE self

\* factor = 1.05 if step < 0 else 0.95, as <<numerator, denominator>>
factor(step) == IF step < 0 THEN <<21, 20>> ELSE <<19, 20>>

times(d, f) == (d \div f[2]) * f[1]

\* transData.inverted().transform: the data coordinate under a pointer that
\* is k halves of the way along the axis.
toData(lim, k) == lim[1] + (k * (lim[2] - lim[1])) \div 2

zoomAbout(lim, data, f) == <<data - times(data - lim[1], f), data + times(lim[2] - data, f)>>

clampXlim(l, orig) == <<max(0, l[1]), min(orig[2], l[2])>>

clampYlim(l, orig) == <<min(orig[1], l[1]), max(0, l[2])>>

wheelEvent_lockIgnored(self, pos, step) ==
    LET xlim == self.axes_xlim
        ylim == self.axes_ylim
        f == factor(step)
        zx == zoomAbout(xlim, toData(xlim, pos[1]), f)
        zy == zoomAbout(ylim, toData(ylim, pos[2]), f)
        nx == IF self.plot_type # "histogram" THEN clampXlim(zx, self._orig_xlim) ELSE zx
        ny == IF self.plot_type # "histogram" THEN clampYlim(zy, self._orig_ylim) ELSE zy
        s1 == [self EXCEPT !._xlim = nx, !._ylim = ny, !.axes_xlim = nx, !.axes_ylim = ny]
    IN [reconfigure(s1) EXCEPT !.is_zoomed = TRUE]

wheelEvent_noClamp(self, pos, step) ==
    LET xlim == self.axes_xlim
        ylim == self.axes_ylim
        f == factor(step)
        zx == zoomAbout(xlim, toData(xlim, pos[1]), f)
        zy == zoomAbout(ylim, toData(ylim, pos[2]), f)
        nx == IF self.lock_x_zoom THEN xlim ELSE zx
        ny == IF self.lock_y_zoom THEN ylim ELSE zy
        s1 == [self EXCEPT !._xlim = nx, !._ylim = ny, !.axes_xlim = nx, !.axes_ylim = ny]
    IN [reconfigure(s1) EXCEPT !.is_zoomed = TRUE]

wheelEvent(self, pos, step) ==
    LET xlim == self.axes_xlim
        ylim == self.axes_ylim
        f == factor(step)
        zx == zoomAbout(xlim, toData(xlim, pos[1]), f)
        zy == zoomAbout(ylim, toData(ylim, pos[2]), f)
        cx == IF self.plot_type # "histogram" THEN clampXlim(zx, self._orig_xlim) ELSE zx
        cy == IF self.plot_type # "histogram" THEN clampYlim(zy, self._orig_ylim) ELSE zy
        nx == IF self.lock_x_zoom THEN xlim ELSE cx
        ny == IF self.lock_y_zoom THEN ylim ELSE cy
        s1 == [self EXCEPT !._xlim = nx, !._ylim = ny, !.axes_xlim = nx, !.axes_ylim = ny]
    IN [reconfigure(s1) EXCEPT !.is_zoomed = TRUE]

mousePressEvent(self, button, pos) ==
    IF button = "LeftButton"
    THEN [self EXCEPT !._is_panning = TRUE, !._pan_start = pos]
    ELSE self

\* The limits a pan to pos would show: the pointer moved (pos - pan_start)
\* halves of the canvas width and height.
pannedXlim(self, pos) ==
    LET lim == self.axes_xlim
        dx_data == ((pos[1] - self._pan_start[1]) * (lim[2] - lim[1])) \div 2
    IN <<lim[1] - dx_data, lim[2] - dx_data>>

pannedYlim(self, pos) ==
    LET lim == self.axes_ylim
        dy_data == ((pos[2] - self._pan_start[2]) * (lim[2] - lim[1])) \div 2
    IN <<lim[1] + dy_data, lim[2] + dy_data>>

\* Whether mouseMoveEvent hands the panned limits to the axes.
panSetsXlim(self, l) ==
    self.plot_type = "histogram" \/ ~(l[1] < 0 \/ l[2] > self._orig_xlim[2])

panSetsYlim(self, l) ==
    self.plot_type = "histogram" \/ ~(l[2] < 0 \/ l[1] > self._orig_ylim[1])

mouseMoveEvent(self, pos) ==
    IF self._is_panning /\ truthy(self._pan_start)
    THEN LET nx == pannedXlim(self, pos)
             ny == pannedYlim(self, pos)
         IN [self EXCEPT !._xlim = nx, !._ylim = ny,
                         !.axes_xlim = IF panSetsXlim(self, nx) THEN nx ELSE @,
                         !.axes_ylim = IF panSetsYlim(self, ny) THEN ny ELSE @,
                         !._pan_start = pos,
                         !.is_zoomed = TRUE]
    ELSE self

mouseReleaseEvent(self, button) ==
    IF button = "LeftButton"
    THEN [self EXCEPT !._is_panning = FALSE, !._pan_start = None]
    ELSE self

reset_plot_keepLimits(self) ==
    [self EXCEPT !.axes_xlim = clearedLim, !.axes_ylim = clearedLim, !.is_zoomed = FALSE]

reset_plot(self) ==
    [self EXCEPT !.axes_xlim = clearedLim, !.axes_ylim = clearedLim,
                 !.is_zoomed = FALSE, !._xlim = <<0>>, !._ylim = <<0>>]

set_plot_type(self, plot_type) ==
    [self EXCEPT !.axes_xlim = clearedLim, !.axes_ylim = clearedLim, !.plot_type = plot_type]

\* display_images / display_histogram of the UI-state manager, as far as the
\* canvas sees them: the data is drawn on the axes, then the plot is
\* configured for its type.
display(self) ==
    reconfigure([self EXCEPT !.axes_xlim = dataXlim(self.plot_type),
                             !.axes_ylim = dataYlim(self.plot_type)])

reset_zoom(self) == reset_plot(self)

(***************************************************************************)
(* Canvas events                                                           *)
(***************************************************************************)
\* Pointer positions in halves of the canvas width and height: the corners
\* and the centre.
PointerPositions == {<<0, 0>>, <<2, 0>>, <<1, 1>>, <<0, 2>>, <<2, 2>>}

WheelSteps == {-120, 0, 120}

Buttons == {"LeftButton", "RightButton"}

PlotTypes == {"image", "histogram"}

Wheel(c, pos, step) ==
    /\ nWheel < MaxWheel
    /\ canvas' = [canvas EXCEPT ![c] = wheelEvent(canvas[c], pos, step)]
    /\ nWheel' = nWheel + 1
    /\ last' = [op |-> "wheelEvent", canvas |-> c]
    /\ UNCHANGED <<contentLayout, steps, nPan>>

MousePress(c, button, pos) ==
    /\ canvas' = [canvas EXCEPT ![c] = mousePressEvent(canvas[c], button, pos)]
    /\ UNCHANGED <<contentLayout, steps, nWheel, nPan, last>>

MouseMove(c, pos) ==
    /\ nPan < MaxPan
    /\ canvas[c]._is_panning /\ truthy(canvas[c]._pan_start)
    /\ canvas' = [canvas EXCEPT ![c] = mouseMoveEvent(canvas[c], pos)]
    /\ nPan' = nPan + 1
    /\ last' = [op |-> "mouseMoveEvent", canvas |-> c,
                set_xlim |-> panSetsXlim(canvas[c], pannedXlim(canvas[c], pos)),
                set_ylim |-> panSetsYlim(canvas[c], pannedYlim(canvas[c], pos))]
    /\ UNCHANGED <<contentLayout, steps, nWheel>>

MouseRelease(c, button) ==
    /\ canvas' = [canvas EXCEPT ![c] = mouseReleaseEvent(canvas[c], button)]
    /\ UNCHANGED <<contentLayout, steps, nWheel, nPan, last>>

\* x_zoom_lock_btn.toggled / y_zoom_lock_btn.toggled: both canvases
XZoomLockToggled(checked) ==
    /\ checked # canvas["in"].lock_x_zoom
    /\ canvas' = [c \in Canvases |-> [canvas[c] EXCEPT !.lock_x_zoom = checked]]
    /\ UNCHANGED <<contentLayout, steps, nWheel, nPan, last>>

YZoomLockToggled(checked) ==
    /\ checked # canvas["in"].lock_y_zoom
    /\ canvas' = [c \in Canvases |-> [canvas[c] EXCEPT !.lock_y_zoom = checked]]
    /\ UNCHANGED <<contentLayout, steps, nWheel, nPan, last>>

\* The plot is drawn again (the pipeline ran, the window was resized).
Replot(c) ==
    /\ canvas' = [canvas EXCEPT ![c] = display(canvas[c])]
    /\ last' = [op |-> "display", canvas |-> c]
    /\ UNCHANGED <<contentLayout, steps, nWheel, nPan>>

ResetPlot(c) ==
    /\ canvas' = [canvas EXCEPT ![c] = reset_plot(canvas[c])]
    /\ last' = [op |-> "reset_plot", canvas |-> c]
    /\ UNCHANGED <<contentLayout, steps, nWheel, nPan>>

\* reset_zoom_btn.clicked: reset_zoom(plot_func) on the input canvas, then on
\* the output canvas; plot_func draws both canvases again.
ResetZoomClicked ==
    /\ canvas' = [c \in Canvases |-> display(reset_zoom(canvas[c]))]
    /\ last' = [op |-> "reset_zoom_btn.clicked"]
    /\ UNCHANGED <<contentLayout, steps, nWheel, nPan>>

InitCanvas ==
    /\ canvas = [c \in Canvases |-> display(newCanvas)]
    /\ nWheel = 0
    /\ nPan = 0

Init ==
    /\ InitLayout
    /\ InitCanvas
    /\ last = [op |-> "init"]

SpecLayout == Init /\ [][NextLayout]_vars

\* The window as constructed: no toolbox added yet.
InitWindow ==
    /\ contentLayout = <<add_new_box>>
    /\ steps = <<>>
    /\ InitCanvas
    /\ last = [op |-> "init"]

\* Wheel and pan events on a canvas showing an image, zoom locks off.
NextZoomPan ==
    \/ \E pos \in PointerPositions, step \in WheelSteps : Wheel("in", pos, step)
    \/ \E button \in Buttons, pos \in PointerPositions : MousePress("in", button, pos)
    \/ \E pos \in PointerPositions : MouseMove("in", pos)
    \/ \E button \in Buttons : MouseRelease("in", button)

SpecZoomPan == InitWindow /\ [][NextZoomPan]_vars


\* The window after the user chose a view (switch_view sets the plot type of
\* both canvases and draws them).
InitView ==
    /\ contentLayout = <<add_new_box>>
    /\ steps = <<>>
    /\ \E plot_type \in PlotTypes :
           canvas = [c \in Canvases |-> display(set_plot_type(display(newCanvas), plot_type))]
    /\ nWheel = 0
    /\ nPan = 0
    /\ last = [op |-> "init"]

\* ... and ticked any of the two zoom-lock boxes.
InitViewLocks ==
    /\ contentLayout = <<add_new_box>>
    /\ steps = <<>>
    /\ \E plot_type \in PlotTypes, lock_x \in BOOLEAN, lock_y \in BOOLEAN :
           canvas = [c \in Canvases |->
                        [display(set_plot_type(display(newCanvas), plot_type))
                            EXCEPT !.lock_x_zoom = lock_x, !.lock_y_zoom = lock_y]]
    /\ nWheel = 0
    /\ nPan = 0
    /\ last = [op |-> "init"]

\* Pointer at the centre or at a corner.
FewPositions == {<<1, 1>>, <<0, 2>>}

\* Zooming and panning the input canvas, and zooming out on the output
\* canvas, while the zoom-lock boxes are ticked and unticked.
NextLock ==
    \/ \E pos \in FewPositions, step \in WheelSteps :
           nWheel + nPan < MaxGestures /\ Wheel("in", pos, step)
    \/ nWheel + nPan < MaxGestures /\ Wheel("out", <<1, 1>>, -120)
    \/ \E button \in Buttons, pos \in FewPositions : MousePress("in", button, pos)
    \/ \E pos \in FewPositions : nWheel + nPan < MaxGestures /\ MouseMove("in", pos)
    \/ \E button \in Buttons : MouseRelease("in", button)
    \/ \E checked \in BOOLEAN : XZoomLockToggled(checked)
    \/ \E checked \in BOOLEAN : YZoomLockToggled(checked)

SpecLock == InitView /\ [][NextLock]_vars

\* Zooming and panning with re-plots and resets in between.
NextReset ==
    \/ \E c \in Canvases, step \in WheelSteps :
           nWheel + nPan < MaxGestures /\ Wheel(c, <<0, 2>>, step)
    \/ \E button \in Buttons, pos \in FewPositions : MousePress("in", button, pos)
    \/ \E pos \in FewPositions : nWheel + nPan < MaxGestures /\ MouseMove("in", pos)
    \/ \E button \in Buttons : MouseRelease("in", button)
    \/ \E c \in Canvases : Replot(c)
    \/ \E c \in Canvases : ResetPlot(c)
    \/ ResetZoomClicked

SpecReset == InitViewLocks /\ [][NextReset]_vars

(***************************************************************************)
(* Claims about the content layout                                         *)
(***************************************************************************)
layoutWidgets(layout) == {layout[k] : k \in 1..Len(layout)}

toolboxOrder(layout) == SelectSeq(layout, isToolbox)

\* C1: after any sequence of drops the add-new box is still the last widget
\* of contentLayout.
C1_AddNewBoxStaysLast == contentLayout[Len(contentLayout)] = add_new_box

\* C2: a toolbox dropped inside the toolbox at layout index i sits at index i
\* afterwards, the layout holds exactly the same widgets (none lost, none
\* duplicated) and the other widgets keep their relative order.
C2_DropOnToolboxReorders ==
    [][\A source \in Toolboxes, w \in Toolboxes :
          dropEvent(source, {w}) =>
              LET i == indexOf(contentLayout, w) IN
              /\ itemAt(contentLayout', i) = source
              /\ Len(contentLayout') = Len(contentLayout)
              /\ layoutWidgets(contentLayout') = layoutWidgets(contentLayout)
              /\ Cardinality(layoutWidgets(contentLayout')) = Len(contentLayout')
              /\ removeWidget(contentLayout', source) = removeWidget(contentLayout, source)
      ]_vars

\* C2 witness: a toolbox was dragged to the right onto another toolbox w; it
\* now sits where w sat and w has moved one place to the left.
C2_WitnessDroppedOnToolbox ==
    /\ last.op = "dropEvent" /\ isToolbox(last.source)
    /\ \E w \in Toolboxes :
          /\ last.pos = {w} /\ w # last.source
          /\ last.index >= 1
          /\ itemAt(contentLayout, last.index - 1) = w
    /\ itemAt(contentLayout, last.index) = last.source
    /\ contentLayout[Len(contentLayout)] = add_new_box

\* C7: the toolboxes read left to right in contentLayout are the pipeline's
\* steps, in the same order.
C7_LayoutOrderIsPipelineOrder == toolboxOrder(contentLayout) = steps

(***************************************************************************)
(* Claims about the canvases                                               *)
(***************************************************************************)
xInside(self) ==
    /\ self.axes_xlim[1] >= 0
    /\ self.axes_xlim[2] <= self._orig_xlim[2]
    /\ self.axes_xlim[2] <= dataXlim("image")[2]

yInside(self) ==
    /\ self.axes_ylim[2] >= 0
    /\ self.axes_ylim[1] <= self._orig_ylim[1]
    /\ self.axes_ylim[1] <= dataYlim("image")[1]

ordered(self) ==
    /\ self.axes_xlim[1] < self.axes_xlim[2]
    /\ self.axes_ylim[2] < self.axes_ylim[1]

C4_ReplotKeepsDisplayedLimits ==
    [][\A c \in Canvases :
          (last'.op = "display" /\ canvas[c].is_zoomed /\ Replot(c)) =>
              /\ canvas'[c].axes_xlim = canvas[c].axes_xlim
              /\ canvas'[c].axes_ylim = canvas[c].axes_ylim
      ]_vars

\* C5: a wheel event on a canvas whose lock_x_zoom is set leaves the axes' x
\* limits as they were, and likewise lock_y_zoom the y limits; an axis that
\* is not locked is still zoomed (on a histogram its span is scaled by the
\* wheel factor; on an image it changes unless it already spans the whole
\* clamped extent).
C5_ZoomLockFreezesAxis ==
    [][\A c \in Canvases, pos \in FewPositions, step \in WheelSteps :
          (last'.op = "wheelEvent" /\ last'.canvas = c /\ Wheel(c, pos, step)) =>
              LET old == canvas[c]
                  new == canvas'[c]
                  f == factor(step)
                  span(l) == l[2] - l[1]
              IN
              /\ old.lock_x_zoom => new.axes_xlim = old.axes_xlim
              /\ old.lock_y_zoom => new.axes_ylim = old.axes_ylim
              /\ (~old.lock_x_zoom /\ old.plot_type = "histogram") =>
                     span(new.axes_xlim) = (span(old.axes_xlim) \div f[2]) * f[1]
              /\ (~old.lock_y_zoom /\ old.plot_type = "histogram") =>
                     span(new.axes_ylim) = (span(old.axes_ylim) \div f[2]) * f[1]
              /\ (~old.lock_x_zoom /\ old.plot_type # "histogram") =>
                     \/ new.axes_xlim # old.axes_xlim
                     \/ old.axes_xlim = <<0, old._orig_xlim[2]>>
              /\ (~old.lock_y_zoom /\ old.plot_type # "histogram") =>
                     \/ new.axes_ylim # old.axes_ylim
                     \/ old.axes_ylim = <<old._orig_ylim[1], 0>>
              /\ new.lock_x_zoom = old.lock_x_zoom
              /\ new.lock_y_zoom = old.lock_y_zoom
      ]_vars

\* C5 witness: with only lock_x_zoom set, wheel events on a zoomed canvas
\* left the x limits at the plotted extent and zoomed the y limits.
C5_WitnessXLockedYZoomed ==
    /\ last.op = "wheelEvent"
    /\ nWheel = MaxWheel
    /\ LET self == canvas[last.canvas] IN
       /\ self.lock_x_zoom /\ ~self.lock_y_zoom
       /\ self.plot_type = "image"
       /\ self.axes_xlim = dataXlim("image")
       /\ self.axes_ylim # dataYlim("image")

\* C6: reset_plot clears is_zoomed and discards the stored limits, leaving
\* plot_type and the lock flags alone; the re-plot that follows captures
\* _orig_xlim/_orig_ylim from the axes again (image plots) and applies none of
\* the limits stored before; the Reset Zoom button does so for both canvases.
C6_ResetDiscardsZoom ==
    [][/\ \A c \in Canvases :
             (last'.op = "reset_plot" /\ ResetPlot(c)) =>
                 /\ ~canvas'[c].is_zoomed
                 /\ ~truthy(canvas'[c]._xlim) /\ ~truthy(canvas'[c]._ylim)
                 /\ canvas'[c].plot_type = canvas[c].plot_type
                 /\ canvas'[c].lock_x_zoom = canvas[c].lock_x_zoom
                 /\ canvas'[c].lock_y_zoom = canvas[c].lock_y_zoom
       /\ \A c \in Canvases :
             (last.op = "reset_plot" /\ last.canvas = c /\ last'.op = "display" /\ Replot(c)) =>
                 /\ canvas'[c].axes_xlim \in {dataXlim(canvas[c].plot_type), <<-Unit, 256 * Unit>>}
                 /\ canvas'[c].axes_ylim = dataYlim(canvas[c].plot_type)
                 /\ canvas[c].plot_type = "image" =>
                        /\ canvas'[c]._orig_xlim = canvas'[c].axes_xlim
                        /\ canvas'[c]._orig_ylim = canvas'[c].axes_ylim
                 /\ ~canvas'[c].is_zoomed
       /\ (last'.op = "reset_zoom_btn.clicked" /\ ResetZoomClicked) =>
             \A c \in Canvases :
                 /\ ~canvas'[c].is_zoomed
                 /\ ~truthy(canvas'[c]._xlim) /\ ~truthy(canvas'[c]._ylim)
                 /\ canvas'[c].axes_xlim \in {dataXlim(canvas[c].plot_type), <<-Unit, 256 * Unit>>}
                 /\ canvas'[c].axes_ylim = dataYlim(canvas[c].plot_type)
                 /\ canvas[c].plot_type = "image" =>
                        /\ canvas'[c]._orig_xlim = canvas'[c].axes_xlim
                        /\ canvas'[c]._orig_ylim = canvas'[c].axes_ylim
                 /\ canvas'[c].plot_type = canvas[c].plot_type
                 /\ canvas'[c].lock_x_zoom = canvas[c].lock_x_zoom
                 /\ canvas'[c].lock_y_zoom = canvas[c].lock_y_zoom
      ]_vars

\* C6 witness: Reset Zoom was clicked after all the wheel events and pans, and
\* both canvases are unzoomed with their limits discarded.
C6_WitnessResetAfterZoom ==
    /\ last.op = "reset_zoom_btn.clicked"
    /\ nWheel > 0 /\ nPan > 0 /\ nWheel + nPan = MaxGestures
    /\ \A c \in Canvases :
          /\ ~canvas[c].is_zoomed
          /\ canvas[c]._xlim = <<0>> /\ canvas[c]._ylim = <<0>>
          /\ canvas[c].lock_x_zoom

=============================================================================
